---- MODULE Spec2Model ----
(***************************************************************************)
(* A model of src/main.py: the resumable chapter scraper.                  *)
(*                                                                         *)
(* State: the progress file (progress.json), the in-memory progress dict,  *)
(* the chapter artifacts on disk, the main thread's position, the worker   *)
(* threads of the ThreadPoolExecutor (bulk mode) and the main thread       *)
(* acting as the only driver (selective mode, thread 0).                   *)
(*                                                                         *)
(* Granularity.  Python gives no atomicity across statements, so lines     *)
(* 168, 169, 170-171, 172 and the three parts of save_progress (open,      *)
(* json.dump, close) are separate steps of a thread.  Lines 170-171 are    *)
(* one step and a statement is one step: between the load of the inner     *)
(* dict and the store into it only a replacement of progress[version] by   *)
(* another thread could act, and a store into the replaced dict is the     *)
(* same as the store followed by the replacement.                          *)
(***************************************************************************)
EXTENDS Integers, Sequences, FiniteSets, TLC

\* ---------------------------------------------------------------- bounds
\* Longest --versions / --books list.
MaxReq == 2
\* Largest --workers value.
MaxWorkers == 2

\* ---------------------------------------------------------------- catalog
\* Two of the 66 books, with their chapter counts (main.py lines 20-21).
bible_books == ("OBA" :> 1) @@ ("HAG" :> 2)
\* The same books in the order of the OrderedDict (OBA is 31st, HAG 37th).
BookOrder == <<"OBA", "HAG">>
\* Two of the versions, with their bible.com ids (main.py lines 33, 60).
bible_versions == ("ASV" :> "12") @@ ("KJV" :> "1")

\* What may be asked for on the command line: catalog codes and one code that
\* is in neither catalog.
Unknown == "ZZZ"
BookArgs == DOMAIN bible_books \cup {Unknown}
VersionArgs == DOMAIN bible_versions \cup {Unknown}

\* ---------------------------------------------------------------- values
Range(s) == {s[i] : i \in DOMAIN s}
SeqsUpTo(S, n) == UNION {[1..k -> S] : k \in 1..n}
Distinct(s) == \A i, j \in DOMAIN s : i # j => s[i] # s[j]

\* The empty dict.
EmptyMap == [x \in {} |-> 0]
\* dict.get(k, default)
Get(m, k, default) == IF k \in DOMAIN m THEN m[k] ELSE default
\* m[k] = x  (insert or overwrite)
Put(m, k, x) == (k :> x) @@ m

\* A JSON value as json.loads returns it: a dict or something else (a list).
Dict(m) == [kind |-> "dict", m |-> m]
JsonList == [kind |-> "list", m |-> EmptyMap]
EmptyLedger == Dict(EmptyMap)

\* The states of progress.json.
Absent == [kind |-> "absent", val |-> EmptyLedger]
Blank == [kind |-> "blank", val |-> EmptyLedger]
Garbage == [kind |-> "garbage", val |-> EmptyLedger]
Json(val) == [kind |-> "json", val |-> val]

\* The count progress holds for (version, book), 0 when a key is missing.
completed_chapters(progress, version, book) ==
    Get(Get(progress.m, version, EmptyMap), book, 0)

\* A chapter artifact data/<version>/<nn>_<book>/<book>_<ccc>_<version>.json
Artifact(version, book, chapter) == <<version, book, chapter>>

\* ---------------------------------------------------------------- ledger file
\* load_progress: the parsed content when the file exists, is not blank and
\* parses; the empty dict otherwise.  The parsed value is returned as it is.
load_progress(file) ==
    IF file.kind = "json" THEN file.val ELSE EmptyLedger

\* ---------------------------------------------------------------- state
VARIABLES
    mode,        \* "bulk" (no --books) or "selective" (--books given)
    versions,    \* versions_to_scrape, in order
    books,       \* args.books, in order (selective mode)
    workers,     \* args.workers
    file,        \* progress.json
    progress,    \* the in-memory progress dict shared by all drivers
    disk,        \* the complete chapter artifacts
    mpc,         \* main thread: "load", "run", "wait", "done", "crashed"
    vi,          \* index in versions of the version being processed
    bi,          \* index in books of the book being processed (selective)
    queue,       \* the executor's work queue: books not yet taken by a worker
    th,          \* per thread: the scrape_book call it runs, if any
    total,       \* total_downloaded
    net,         \* history: the chapters an HTTP GET was issued for
    okset,       \* history: the chapters scrape_bible_chapter returned True for
    invoked,     \* history: the (version, book) pairs scrape_book was called with
    fetchFailed, \* history: a request or an artifact write was made to fail
    saveFailed,  \* history: an open or a close of progress.json was made to fail
    written,     \* history: the artifacts whose write completed, now or before the run
    fresh,       \* history: the run started with an empty ledger and no artifact
    attempts,    \* history: per (version, book), the chapters scrape_bible_chapter was called for, in order
    trues,       \* history: per version, how many calls of scrape_bible_chapter returned True
    started      \* history: per book, how many times the current pool started its task

vars == <<mode, versions, books, workers, file, progress, disk, mpc, vi, bi,
          queue, th, total, net, okset, invoked, fetchFailed, saveFailed,
          written, fresh, attempts, trues, started>>

config == <<mode, versions, books, workers>>
history == <<net, okset, invoked, fetchFailed, saveFailed, written, fresh,
             attempts, trues, started>>

\* Thread 0 is the main thread (the driver of selective mode); 1..workers are
\* the threads of the pool.
Threads == 0..MaxWorkers

Idle ==
    [pc |-> "idle", book |-> "", version |-> "", chapter |-> 0, lo |-> 0,
     newly |-> 0, calls |-> <<>>, failed |-> 0, buf |-> EmptyLedger,
     over |-> FALSE, touched |-> FALSE, before |-> 0]

\* ---------------------------------------------------------------- start states
\* The counts a ledger may hold for a set of books: 1..chapterCount each.
Counts(S) ==
    {f \in [S -> UNION {1..bible_books[b] : b \in S}] :
        \A b \in S : f[b] <= bible_books[b]}
\* The ledgers a progress file starts with: empty, or counts for KJV.
InitLedgers ==
    {EmptyMap} \cup
    {("KJV" :> f) : f \in UNION {Counts(S) : S \in SUBSET DOMAIN bible_books}}
InitFiles ==
    {Absent, Blank, Garbage, Json(JsonList)} \cup {Json(Dict(l)) : l \in InitLedgers}

\* The artifacts a ledger stands for: chapters 1..count of every pair.
ArtifactsOf(val) ==
    UNION {{Artifact(v, b, c) : c \in 1..completed_chapters(val, v, b)} :
           v \in DOMAIN bible_versions, b \in DOMAIN bible_books}

Init ==
    /\ mode \in {"bulk", "selective"}
    /\ versions \in SeqsUpTo(VersionArgs, MaxReq)
    /\ IF mode = "bulk"
       THEN books = <<>> /\ workers \in 1..MaxWorkers
       ELSE books \in SeqsUpTo(BookArgs, MaxReq) /\ workers = 1
    /\ file \in InitFiles
    /\ progress = EmptyLedger
    /\ disk = ArtifactsOf(load_progress(file))
    /\ mpc = "load"
    /\ vi = 1
    /\ bi = 1
    /\ queue = <<>>
    /\ th = [t \in Threads |-> Idle]
    /\ total = EmptyMap
    /\ net = {}
    /\ okset = {}
    /\ invoked = {}
    /\ fetchFailed = FALSE
    /\ saveFailed = FALSE
    /\ written = disk
    /\ fresh = (load_progress(file) = EmptyLedger)
    /\ attempts = [p \in VersionArgs \X DOMAIN bible_books |-> <<>>]
    /\ trues = [v \in VersionArgs |-> 0]
    /\ started = [b \in DOMAIN bible_books |-> 0]

\* ---------------------------------------------------------------- main / scrape_all_bible: load
\* main line 247-248 (selective) and scrape_all_bible lines 197-198 (bulk):
\* the ledger is loaded once and the totals start at 0 for every version.
Load ==
    /\ mpc = "load"
    /\ progress' = load_progress(file)
    /\ total' = [v \in Range(versions) |-> 0]
    /\ mpc' = "run"
    /\ UNCHANGED <<config, file, disk, vi, bi, queue, th, history>>

\* ---------------------------------------------------------------- scrape_book
\* Line 186: the loop runs chapter = completed_chapters + 1 .. chapters.
FirstChapterFromCount(completed) == completed
FirstChapter(completed) == completed + 1
LastChapterInclusiveEnd(chapters) == chapters + 1
LastChapterExclusiveEnd(chapters) == chapters - 1
LastChapter(chapters) == chapters

\* Line 186: the range yields the chapters one by one.
SameChapter(chapter) == chapter
NextChapter(chapter) == chapter + 1

\* A failure that is logged without leaving the loop.
FailedContinue(r) ==
    LET n == [r EXCEPT !.failed = r.chapter, !.buf = EmptyLedger,
                       !.over = FALSE]
    IN  IF NextChapter(r.chapter) <= LastChapter(bible_books[r.book])
        THEN [n EXCEPT !.chapter = NextChapter(@), !.pc = "fetch"]
        ELSE [n EXCEPT !.pc = "ret"]
\* scrape_bible_chapter returned False: scrape_book breaks and returns
\* newly_downloaded (lines 190-194).
Failed(r) ==
    [r EXCEPT !.pc = "ret", !.failed = r.chapter, !.buf = EmptyLedger,
              !.over = FALSE]

\* scrape_bible_chapter returned True: newly_downloaded += 1, then the next
\* chapter, or the return after the last one (lines 188-194).
Succeeded(r) ==
    LET n == [r EXCEPT !.newly = @ + 1, !.buf = EmptyLedger, !.over = FALSE,
                       !.touched = FALSE, !.before = 0]
    IN  IF NextChapter(r.chapter) <= LastChapter(bible_books[r.book])
        THEN [n EXCEPT !.chapter = NextChapter(@), !.pc = "fetch"]
        ELSE [n EXCEPT !.pc = "ret"]

\* Lines 183-186: the call of scrape_book by thread t.  progress.get raises
\* AttributeError when the loaded value is not a dict; otherwise the loop
\* starts after the recorded count, or is empty.
scrape_book(t, book, version) ==
    /\ invoked' = invoked \cup {<<version, book>>}
    /\ th' = [th EXCEPT ![t] =
          LET r == [Idle EXCEPT !.book = book, !.version = version]
              done == completed_chapters(progress, version, book)
          IN  IF progress.kind # "dict"
              THEN [r EXCEPT !.pc = "raised"]
              ELSE IF FirstChapter(done) <= LastChapter(bible_books[book])
                   THEN [r EXCEPT !.pc = "fetch", !.lo = done,
                                  !.chapter = FirstChapter(done)]
                   ELSE [r EXCEPT !.pc = "ret", !.lo = done]]

\* ---------------------------------------------------------------- scrape_bible_chapter
AnyVersion(version) == TRUE
\* Lines 139-140: a version with no id in bible_versions is unknown.
KnownVersion(version) == Get(bible_versions, version, "") # ""

AfterWriteIgnoringFailure(r, ok) == [r EXCEPT !.pc = "L168"]
\* After lines 144-165: on to the progress update when the artifact was
\* written, the except clauses and return False otherwise.
AfterWrite(r, ok) ==
    IF ok THEN [r EXCEPT !.pc = "L168"] ELSE Failed(r)

\* Lines 139-165: the version lookup, the GET, the parse and the artifact
\* write of one chapter.  Only the calling thread touches this artifact, so
\* the four statements are one step.
Fetch(t) ==
    /\ th[t].pc = "fetch"
    /\ LET r == [th[t] EXCEPT !.calls = Append(@, th[t].chapter),
                              !.before = completed_chapters(progress,
                                             th[t].version, th[t].book)]
           a == Artifact(r.version, r.book, r.chapter)
       IN  IF ~KnownVersion(r.version)
           THEN /\ th' = [th EXCEPT ![t] = Failed(r)]
                /\ UNCHANGED <<disk, net, fetchFailed, written>>
           ELSE /\ net' = net \cup {a}
                /\ \/ \* the request, the parse or makedirs raises
                      /\ th' = [th EXCEPT ![t] = AfterWrite(r, FALSE)]
                      /\ fetchFailed' = TRUE
                      /\ UNCHANGED <<disk, written>>
                   \/ \* open(.., 'w') truncated the artifact, the dump raises
                      /\ th' = [th EXCEPT ![t] = AfterWrite(r, FALSE)]
                      /\ fetchFailed' = TRUE
                      /\ disk' = disk \ {a}
                      /\ UNCHANGED written
                   \/ \* the artifact is written
                      /\ th' = [th EXCEPT ![t] = AfterWrite(r, TRUE)]
                      /\ disk' = disk \cup {a}
                      /\ written' = written \cup {a}
                      /\ UNCHANGED fetchFailed
    /\ attempts' = [attempts EXCEPT ![<<th[t].version, th[t].book>>] =
                                         Append(@, th[t].chapter)]
    /\ UNCHANGED <<config, file, progress, mpc, vi, bi, queue, total, okset,
                   invoked, saveFailed, fresh, trues, started>>

\* Line 168: if version not in progress
CheckVersion(t) ==
    /\ th[t].pc = "L168"
    /\ th' = [th EXCEPT ![t].pc =
                 IF th[t].version \in DOMAIN progress.m THEN "L170" ELSE "L169"]
    /\ UNCHANGED <<config, file, progress, disk, mpc, vi, bi, queue, total,
                   history>>

\* Line 169: progress[version] = {}
CreateVersion(t) ==
    /\ th[t].pc = "L169"
    /\ progress' = Dict(Put(progress.m, th[t].version, EmptyMap))
    /\ th' = [th EXCEPT ![t].pc = "L170", ![t].touched = TRUE]
    /\ UNCHANGED <<config, file, disk, mpc, vi, bi, queue, total, history>>

\* Lines 170-171: if book not in progress[version]: progress[version][book] = 0
CheckBook(t) ==
    /\ th[t].pc = "L170"
    /\ LET v == th[t].version
           b == th[t].book
       IN  progress' = IF b \in DOMAIN progress.m[v]
                       THEN progress
                       ELSE Dict(Put(progress.m, v, Put(progress.m[v], b, 0)))
    /\ th' = [th EXCEPT ![t].pc = "L172",
                         ![t].touched = @ \/ progress' # progress]
    /\ UNCHANGED <<config, file, disk, mpc, vi, bi, queue, total, history>>

\* Line 172: the new count.
NotIncremented(count) == count
Incremented(count) == count + 1

\* Line 172: progress[version][book] += 1.  The subscript raises KeyError
\* when the book's key is not in the dict progress[version] now holds; the
\* except clause of line 178 turns it into return False.
Increment(t) ==
    /\ th[t].pc = "L172"
    /\ LET v == th[t].version
           b == th[t].book
       IN  IF b \in DOMAIN progress.m[v]
           THEN /\ progress' = Dict(Put(progress.m, v,
                                   Put(progress.m[v], b,
                                       Incremented(progress.m[v][b]))))
                /\ th' = [th EXCEPT ![t].pc = "open", ![t].touched = TRUE]
           ELSE /\ th' = [th EXCEPT ![t] = Failed(th[t])]
                /\ UNCHANGED progress
    /\ UNCHANGED <<config, file, disk, mpc, vi, bi, queue, total, history>>

\* ---------------------------------------------------------------- save_progress
\* The threads that hold progress.json open for writing.
Writing(t) == th[t].pc \in {"dump", "close"}

\* What a thread's own write leaves in the other open descriptors: their
\* later write lands on content that is already there.
Overwritten(t) ==
    [u \in Threads |->
        IF u # t /\ Writing(u) THEN [th[u] EXCEPT !.over = TRUE] ELSE th[u]]

\* save_progress is over (with or without the file written): line 175
\* returns True to scrape_book.
Saved(t, threads) ==
    /\ th' = [threads EXCEPT ![t] = Succeeded(th[t])]
    /\ okset' = okset \cup {Artifact(th[t].version, th[t].book, th[t].chapter)}
    /\ trues' = [trues EXCEPT ![th[t].version] = @ + 1]

\* Line 128: open('progress.json', 'w') truncates the file; when it raises,
\* the except clause logs and the file is as it was.
SaveOpen(t) ==
    /\ th[t].pc = "open"
    /\ \/ /\ file' = Blank
          /\ th' = [th EXCEPT ![t].pc = "dump", ![t].over = FALSE]
          /\ UNCHANGED <<okset, trues, saveFailed>>
       \/ /\ saveFailed' = TRUE
          /\ Saved(t, th)
          /\ UNCHANGED file
    /\ UNCHANGED <<config, progress, disk, mpc, vi, bi, queue, total, net,
                   invoked, fetchFailed, written, fresh, attempts, started>>

\* Line 129: json.dump serialises the dict into the file object's buffer.
\* The encoder iterates the dicts (indent=2 selects the Python encoder): a
\* key another thread inserts meanwhile (line 171) raises RuntimeError, the
\* with block flushes the part already encoded and the except clause logs.
SaveDump(t) ==
    /\ th[t].pc = "dump"
    /\ \/ /\ th' = [th EXCEPT ![t].pc = "close", ![t].buf = progress]
          /\ UNCHANGED <<file, okset, trues>>
       \/ /\ \E u \in Threads \ {t} :
                /\ th[u].pc = "L170"
                /\ th[u].book \notin DOMAIN progress.m[th[u].version]
          /\ file' = Garbage
          /\ Saved(t, Overwritten(t))
    /\ UNCHANGED <<config, progress, disk, mpc, vi, bi, queue, total, net,
                   invoked, fetchFailed, saveFailed, written, fresh, attempts,
                   started>>

\* Lines 128-129, leaving the with block: the buffer is flushed at offset 0
\* of this thread's descriptor.  On a file another descriptor wrote since
\* this one was opened the result is this buffer, or this buffer followed
\* by the tail of the longer content: not JSON.  When the flush raises, the
\* except clause logs and the file is as it was.
SaveClose(t) ==
    /\ th[t].pc = "close"
    /\ \/ /\ \E f \in (IF th[t].over THEN {Json(th[t].buf), Garbage}
                                     ELSE {Json(th[t].buf)}) : file' = f
          /\ Saved(t, Overwritten(t))
          /\ UNCHANGED saveFailed
       \/ /\ saveFailed' = TRUE
          /\ Saved(t, th)
          /\ UNCHANGED file
    /\ UNCHANGED <<config, progress, disk, mpc, vi, bi, queue, total, net,
                   invoked, fetchFailed, written, fresh, attempts, started>>

\* One step of the scrape_book call a thread runs.
Driver(t) ==
    \/ Fetch(t)
    \/ CheckVersion(t)
    \/ CreateVersion(t)
    \/ CheckBook(t)
    \/ Increment(t)
    \/ SaveOpen(t)
    \/ SaveDump(t)
    \/ SaveClose(t)

\* ---------------------------------------------------------------- main: selective mode
\* Line 255: if book in bible_books
KnownBook(book) == book \in DOMAIN bible_books

\* The loops of lines 253-254 move on to the next book, then the next version.
Advance ==
    IF bi < Len(books)
    THEN bi' = bi + 1 /\ vi' = vi
    ELSE bi' = 1 /\ vi' = vi + 1

\* Lines 211 and 257: total_downloaded[version] += newly_downloaded
AddedOne(count, newly_downloaded) == count + 1
Added(count, newly_downloaded) == count + newly_downloaded

\* Lines 260-261: an unknown book is logged and skipped.
SelSkip ==
    /\ mode = "selective" /\ mpc = "run" /\ vi <= Len(versions)
    /\ th[0].pc = "idle"
    /\ ~KnownBook(books[bi])
    /\ Advance
    /\ UNCHANGED <<config, file, progress, disk, mpc, queue, th, total, history>>

\* Line 256: the main thread calls scrape_book.
SelCall ==
    /\ mode = "selective" /\ mpc = "run" /\ vi <= Len(versions)
    /\ th[0].pc = "idle"
    /\ KnownBook(books[bi])
    /\ scrape_book(0, books[bi], versions[vi])
    /\ UNCHANGED <<config, file, progress, disk, mpc, vi, bi, queue, total,
                   net, okset, fetchFailed, saveFailed, written, fresh,
                   attempts, trues, started>>

\* Lines 256-259: scrape_book returned; its count is added to the version's total.
SelReturn ==
    /\ mode = "selective" /\ th[0].pc = "ret"
    /\ total' = [total EXCEPT ![th[0].version] = Added(@, th[0].newly)]
    /\ th' = [th EXCEPT ![0] = Idle]
    /\ Advance
    /\ UNCHANGED <<config, file, progress, disk, mpc, queue, history>>

\* Line 256: an exception of scrape_book is caught nowhere in main: the
\* process ends with a traceback, before line 269.
SelCrash ==
    /\ mode = "selective" /\ th[0].pc = "raised"
    /\ mpc' = "crashed"
    /\ th' = [th EXCEPT ![0] = Idle]
    /\ UNCHANGED <<config, file, progress, disk, vi, bi, queue, total, history>>

\* ---------------------------------------------------------------- scrape_all_bible: bulk mode
\* Lines 203-205: a pool for the version, one scrape_book task per book.
Submit ==
    /\ mode = "bulk" /\ mpc = "run" /\ vi <= Len(versions)
    /\ queue' = BookOrder
    /\ started' = [b \in DOMAIN bible_books |-> 0]
    /\ mpc' = "wait"
    /\ UNCHANGED <<config, file, progress, disk, vi, bi, th, total, net, okset,
                   invoked, fetchFailed, saveFailed, written, fresh, attempts,
                   trues>>

\* What is left in the work queue once a worker has taken a task.
StillQueued(q) == q
Remaining(q) == Tail(q)

\* A free worker of the pool takes the next task of the queue.  The workers
\* are interchangeable: the free worker with the least number takes it.
Take(t) ==
    /\ mode = "bulk" /\ mpc = "wait"
    /\ t \in 1..workers
    /\ th[t].pc = "idle"
    /\ \A u \in 1..(t - 1) : th[u].pc # "idle"
    /\ queue # <<>>
    /\ scrape_book(t, Head(queue), versions[vi])
    /\ queue' = Remaining(queue)
    /\ started' = [started EXCEPT ![Head(queue)] = @ + 1]
    /\ UNCHANGED <<config, file, progress, disk, mpc, vi, bi, total, net,
                   okset, fetchFailed, saveFailed, written, fresh, attempts,
                   trues>>

\* Lines 207-213: a finished task's result is added to the version's total.
Collect(t) ==
    /\ mode = "bulk" /\ th[t].pc = "ret"
    /\ total' = [total EXCEPT ![th[t].version] = Added(@, th[t].newly)]
    /\ th' = [th EXCEPT ![t] = Idle]
    /\ UNCHANGED <<config, file, progress, disk, mpc, vi, bi, queue, history>>

\* Lines 214-215: a task that raised is logged; the total is left alone.
CollectException(t) ==
    /\ mode = "bulk" /\ th[t].pc = "raised"
    /\ th' = [th EXCEPT ![t] = Idle]
    /\ UNCHANGED <<config, file, progress, disk, mpc, vi, bi, queue, total,
                   history>>

\* Line 203, leaving the with block: shutdown(wait=True) returns once every
\* task was started and has finished.
AllStarted == queue = <<>>
AllFinished == queue = <<>> /\ \A t \in Threads : th[t].pc = "idle"

\* Line 203, leaving the with block: the executor is shut down once every
\* task has finished; then the next version.
PoolExit ==
    /\ mode = "bulk" /\ mpc = "wait"
    /\ AllFinished
    /\ vi' = vi + 1
    /\ mpc' = "run"
    /\ UNCHANGED <<config, file, progress, disk, bi, queue, th, total, history>>

\* ---------------------------------------------------------------- main: summary
\* Lines 265-271: after the last version the totals are printed.
Summary ==
    /\ mpc = "run" /\ vi > Len(versions)
    /\ mpc' = "done"
    /\ UNCHANGED <<config, file, progress, disk, vi, bi, queue, th, total,
                   history>>

Next ==
    \/ Load
    \/ SelSkip
    \/ SelCall
    \/ SelReturn
    \/ SelCrash
    \/ Submit
    \/ \E t \in Threads : Take(t)
    \/ \E t \in Threads : Collect(t)
    \/ \E t \in Threads : CollectException(t)
    \/ PoolExit
    \/ Summary
    \/ \E t \in Threads : Driver(t)

Spec == Init /\ [][Next]_vars

\* Every thread that can run gets to run, and every request ends (the GET
\* of line 146 has a timeout): a step that is possible is taken.
SpecLive == Spec /\ WF_vars(Next)

\* ================================================================ claims
\* The known versions and books of a request.
KnownVersions == Range(versions) \cap DOMAIN bible_versions
KnownBooks ==
    IF mode = "bulk" THEN DOMAIN bible_books
    ELSE Range(books) \cap DOMAIN bible_books
\* All chapters of a book.
AllChapters(V, B) ==
    UNION {{Artifact(v, b, c) : c \in 1..bible_books[b]} : v \in V, b \in B}
RECURSIVE SumChapters(_)
SumChapters(B) ==
    IF B = {} THEN 0
    ELSE LET b == CHOOSE x \in B : TRUE
         IN  bible_books[b] + SumChapters(B \ {b})
\* A scrape_book call in progress or just returned.
Running(t) == th[t].pc \notin {"idle", "raised"}

\* C1 (resume correctness): a scrape_book call that found count N in the
\* ledger calls the chapter fetcher first for chapter N+1, never for a
\* chapter in 1..N, and not at all when N >= chapterCount.
C1_ResumeAfterCompleted ==
    \A t \in Threads :
        Running(t) =>
            /\ \A i \in DOMAIN th[t].calls : th[t].calls[i] > th[t].lo
            /\ th[t].calls # <<>> => th[t].calls[1] = th[t].lo + 1
            /\ th[t].lo >= bible_books[th[t].book] => th[t].calls = <<>>
\* C1 witness: a call that found count 1 has fetched chapter 2 and nothing else.
C1_Witness ==
    \E t \in Threads :
        /\ th[t].lo = 1
        /\ th[t].calls = <<2>>
        /\ Artifact(th[t].version, th[t].book, 2) \in net

\* C2 (fail-fast per book): a scrape_book call whose fetch of chapter K
\* returned False makes no later call, returns the number of chapters that
\* succeeded before K, and leaves the ledger count of its pair at K-1.
C2_FailFast ==
    \A t \in Threads :
        (th[t].pc = "ret" /\ th[t].failed # 0) =>
            /\ th[t].calls[Len(th[t].calls)] = th[t].failed
            /\ th[t].newly = th[t].failed - 1 - th[t].lo
            /\ completed_chapters(progress, th[t].version, th[t].book)
                   = th[t].failed - 1

\* Every requested known pair is complete in a ledger value.
CompleteIn(val) ==
    \A v \in KnownVersions, b \in KnownBooks :
        completed_chapters(val, v, b) = bible_books[b]
\* Exactly the chapters of the requested known pairs have artifacts.
CompleteOnDisk == disk = AllChapters(KnownVersions, KnownBooks)

\* C3 (complete run under concurrency): a bulk run with 2 or more workers
\* that started from an empty ledger and in which nothing was made to fail
\* ends with count = chapterCount in the shared ledger for every
\* (version, book) and with exactly the chapters 1..chapterCount on disk.
C3_CompleteBulk ==
    (/\ mode = "bulk" /\ workers >= 2 /\ mpc = "done"
     /\ fresh /\ ~fetchFailed /\ ~saveFailed)
        => CompleteIn(progress) /\ CompleteOnDisk

\* The request of C4: selective mode, distinct known books, distinct known
\* versions, an empty ledger and no artifact at the start.
SelectiveFresh ==
    /\ mode = "selective"
    /\ Distinct(books) /\ Range(books) \subseteq DOMAIN bible_books
    /\ Distinct(versions) /\ Range(versions) \subseteq DOMAIN bible_versions
    /\ fresh
\* The end state C4 describes.
CompleteSelective ==
    /\ CompleteIn(progress)
    /\ file.kind = "json" /\ CompleteIn(file.val)
    /\ CompleteOnDisk
    /\ \A v \in Range(versions) : total[v] = SumChapters(Range(books))

\* C4 as stated (complete run, sequential): with every fetch succeeding, the
\* run ends with the in-memory and the persisted ledger complete, exactly
\* the requested chapters on disk and each total the sum of the chapterCounts.
C4_CompleteSelectiveAsStated ==
    (SelectiveFresh /\ mpc = "done" /\ ~fetchFailed) => CompleteSelective
\* C4 amended: the same, for a run in which every fetch and every ledger
\* save succeeded.
C4_CompleteSelective ==
    (SelectiveFresh /\ mpc = "done" /\ ~fetchFailed /\ ~saveFailed)
        => CompleteSelective
\* C4 witness: such a run over two books and two versions has ended.
C4_Witness ==
    /\ SelectiveFresh /\ mpc = "done" /\ ~fetchFailed /\ ~saveFailed
    /\ Len(books) = 2 /\ Len(versions) = 2
    /\ total = [v \in Range(versions) |-> 3]

\* C5 (idempotence across runs): after a run in which nothing was made to
\* fail, a run that loads the progress file the first run left starts every
\* pair after the last chapter the first run completed for it.
C5_Idempotent ==
    (mpc = "done" /\ ~fetchFailed /\ ~saveFailed) =>
        \A a \in okset :
            FirstChapter(completed_chapters(load_progress(file), a[1], a[2]))
                > a[3]

\* A progress file that holds a ledger: a mapping version -> (book -> count).
WellFormed(f) == f.kind = "json" /\ f.val.kind = "dict"

\* C6 (fail-open ledger load): whenever the progress file is absent, empty,
\* not parseable or parseable but not a ledger, the load yields the empty
\* ledger; only a well-formed ledger file is returned as loaded.
C6_FailOpenLoad ==
    [][(mpc = "load" /\ mpc' = "run") =>
          progress' = (IF WellFormed(file) THEN file.val ELSE EmptyLedger)]_vars

\* C7 (unknown identifiers): no GET is issued for an unknown version or
\* book, no scrape_book call is made for an unknown book, the in-memory and
\* the persisted ledger get no key for either, an unknown version's total
\* stays 0, and when the summary is printed a scrape_book call has been made
\* for every requested pair of a known book and a version.
C7_UnknownSkipped ==
    /\ \A a \in net : a[1] \in DOMAIN bible_versions /\ a[2] \in DOMAIN bible_books
    /\ \A p \in invoked : p[2] \in DOMAIN bible_books
    /\ \A val \in {progress, file.val} :
           /\ DOMAIN val.m \subseteq DOMAIN bible_versions
           /\ \A v \in DOMAIN val.m : DOMAIN val.m[v] \subseteq DOMAIN bible_books
    /\ \A v \in DOMAIN total : v \notin DOMAIN bible_versions => total[v] = 0
    /\ mpc = "done" =>
           \A v \in Range(versions), b \in KnownBooks : <<v, b>> \in invoked
\* C7 witness: a selective run asked for an unknown book and an unknown
\* version beside a known pair, has downloaded a chapter and printed the summary.
C7_Witness ==
    /\ mpc = "done" /\ mode = "selective"
    /\ Unknown \in Range(books) /\ Unknown \in Range(versions)
    /\ okset # {}
    /\ total[Unknown] = 0

\* No count of a ledger value exceeds the book's chapterCount.
Bounded(val) ==
    \A v \in DOMAIN val.m :
        \A b \in DOMAIN val.m[v] \cap DOMAIN bible_books :
            val.m[v][b] <= bible_books[b]

\* C8 (ledger bound): in every reachable state the count stored for every
\* (version, book), in memory, in a save's buffer and in the progress file,
\* is at most the book's chapterCount.
C8_LedgerBounded ==
    /\ Bounded(progress)
    /\ Bounded(file.val)
    /\ \A t \in Threads : Bounded(th[t].buf)
\* C8 witness: a run that names a version twice and had a failure holds a
\* count equal to chapterCount for a book of 2 chapters.
C8_Witness ==
    /\ ~Distinct(versions) /\ fetchFailed
    /\ \E v \in DOMAIN progress.m :
           /\ "HAG" \in DOMAIN progress.m[v]
           /\ progress.m[v]["HAG"] = bible_books["HAG"]
           /\ Artifact(v, "HAG", 2) \in okset

C10_RunCompletes ==
    /\ mpc = "done" \/ ENABLED Next
    /\ mpc = "done" => DOMAIN total = Range(versions)

\* The scrape_book calls of a pair that are executing.
InFlight(version, book) ==
    {t \in Threads : /\ th[t].pc \notin {"idle", "ret", "raised"}
                     /\ th[t].version = version /\ th[t].book = book}
\* A sequence of consecutive, increasing integers.
Consecutive(s) == \A i \in 1..(Len(s) - 1) : s[i + 1] = s[i] + 1
\* At most one call of the pair is executing and the chapters attempted
\* for the pair so far go up one by one.
PairOrdered(version, book) ==
    /\ Cardinality(InFlight(version, book)) <= 1
    /\ Consecutive(attempts[<<version, book>>])

\* C11 as stated (per-pair ordering): in a run with distinct requested
\* versions every pair has at most one fetch in flight and the chapters
\* attempted for it are consecutive and strictly increasing.
C11_PairOrderedAsStated ==
    Distinct(versions) =>
        \A v \in VersionArgs, b \in DOMAIN bible_books : PairOrdered(v, b)
\* C11 amended: the same for a run whose requested versions are distinct
\* and whose requested books are distinct.
C11_PairOrdered ==
    (Distinct(versions) /\ Distinct(books)) =>
        \A v \in VersionArgs, b \in DOMAIN bible_books : PairOrdered(v, b)
\* C11 witness: in a bulk run of two workers over distinct versions both
\* books are in flight and chapters 1, 2 of HAG were attempted, the second
\* without success.
C11_Witness ==
    /\ mode = "bulk" /\ Distinct(versions) /\ Len(versions) = 2
    /\ fetchFailed
    /\ \E v \in DOMAIN bible_versions :
           /\ Cardinality(InFlight(v, "OBA")) = 1
           /\ Cardinality(InFlight(v, "HAG")) = 1
           /\ attempts[<<v, "HAG">>] = <<1, 2>>

\* The pool threads that run a task or hold a result not yet collected.
Busy == {t \in Threads : th[t].pc # "idle"}

\* C12 (versions are sequential in bulk mode): every task a pool thread
\* runs belongs to the version the loop of line 202 is at, and the loop
\* moves to the next version only when no task is queued, running or
\* uncollected, whether it returned or raised.
C12_VersionsSequential ==
    /\ [](mode = "bulk" =>
             \A t \in Busy :
                 /\ mpc = "wait" /\ vi <= Len(versions)
                 /\ th[t].version = versions[vi])
    /\ [][(mode = "bulk" /\ vi' # vi) => (Busy = {} /\ queue = <<>>)]_vars
\* C12 witness: a bulk run over two distinct versions runs a task of the
\* second version after a chapter of the first was downloaded by one task
\* and another task of the first failed.
C12_Witness ==
    /\ mode = "bulk" /\ Len(versions) = 2 /\ Distinct(versions) /\ vi = 2
    /\ \E t \in Busy : th[t].version = versions[2] /\ th[t].pc = "L168"
    /\ \E a \in okset : a[1] = versions[1]
    /\ attempts[<<versions[1], "HAG">>] = <<1>>

\* The pool threads that execute a scrape_book call.
Executing == {t \in Threads : th[t].pc \notin {"idle", "ret", "raised"}}
\* Every task of the current pool was started.
AllExecuted == \A b \in DOMAIN bible_books : started[b] = 1

\* C13 (bounded concurrency in bulk mode): at most `workers` scrape_book
\* calls execute at the same time; the pool of a version is given one task
\* per book at once; a task is started at most once, is either queued or
\* started, and every task of the pool is eventually started, before the
\* pool is left.
C13_BoundedPool ==
    /\ [](mode = "bulk" =>
             /\ Cardinality(Executing) <= workers
             /\ Cardinality(Busy) <= workers
             /\ mpc = "wait" =>
                    \A b \in DOMAIN bible_books :
                        started[b] = (IF b \in Range(queue) THEN 0 ELSE 1))
    /\ [][(mode = "bulk" /\ mpc = "run" /\ mpc' = "wait") =>
              (Range(queue') = DOMAIN bible_books /\ Distinct(queue'))]_vars
    /\ [][(mode = "bulk" /\ vi' # vi) => AllExecuted]_vars
    /\ (mode = "bulk" /\ mpc = "wait") ~> AllExecuted
\* C13 witness: a pool of one worker has run both of its tasks, one after
\* the other, each with a download.
C13_Witness ==
    /\ mode = "bulk" /\ workers = 1 /\ mpc = "wait"
    /\ AllExecuted
    /\ Cardinality(Executing) = 1
    /\ \E a, b \in okset : a[2] = "OBA" /\ b[2] = "HAG"

\* C14 (a failed fetch leaves the ledger untouched): a call of
\* scrape_bible_chapter that returned False, for whatever reason, has not
\* changed the in-memory ledger, its version and book keys included, nor
\* the progress file.
C14_FailedFetchNoUpdate ==
    \A t \in Threads : th[t].failed # 0 => ~th[t].touched

\* The step in which the save_progress call of thread t ends in its except
\* clause: open raised, json.dump raised, or the flush at the end of the
\* with block raised and left the file as it was.
SaveFails(t) ==
    \/ th[t].pc = "open" /\ th'[t].pc \notin {"open", "dump"}
    \/ th[t].pc = "dump" /\ th'[t].pc \notin {"dump", "close"}
    \/ th[t].pc = "close" /\ th'[t].pc # "close" /\ file' = file

\* C15 (a ledger save failure is swallowed): when the artifact of a chapter
\* was written and the save fails, the fetch returns True, the in-memory
\* count of the pair is 1 more than when the fetch was called, scrape_book
\* counts the chapter and goes on to the next one, and a later run, which
\* starts from the progress file, skips no chapter that is not on disk.
C15_SaveFailureSwallowed ==
    /\ [][\A t \in Threads :
              SaveFails(t) =>
                  /\ th'[t] = Succeeded(th[t])
                  /\ Artifact(th[t].version, th[t].book, th[t].chapter) \in okset'
                  /\ completed_chapters(progress', th[t].version, th[t].book)
                         = th[t].before + 1]_vars
    /\ [](saveFailed => ArtifactsOf(load_progress(file)) \subseteq disk)

\* C16 (summary accuracy): in both modes and whatever failed, the result
\* of every scrape_book call is added to the total of its version as it
\* is, a call that started at count 0 and failed at chapter K returns K-1,
\* and the total printed for each version is the number of
\* scrape_bible_chapter calls of that version that returned True.
C16_SummaryAccurate ==
    /\ [](mpc = "done" => \A v \in Range(versions) : total[v] = trues[v])
    /\ [](\A t \in Threads :
             (th[t].pc = "ret" /\ th[t].failed # 0 /\ th[t].lo = 0) =>
                 th[t].newly = th[t].failed - 1)
    /\ [][\A t \in Threads :
              (th[t].pc = "ret" /\ th'[t].pc = "idle") =>
                  total'[th[t].version] = total[th[t].version] + th[t].newly]_vars
\* C16 witness: the summary of a run from an empty ledger in which HAG
\* failed at chapter 2 and OBA was downloaded shows 2 for the version.
C16_Witness ==
    /\ mpc = "done" /\ fresh /\ fetchFailed
    /\ \E v \in Range(versions) :
           /\ attempts[<<v, "HAG">>] = <<1, 2>>
           /\ attempts[<<v, "OBA">>] = <<1>>
           /\ total[v] = 2 /\ trues[v] = 2

\* The points at which an interruption finds no save under way.
BetweenSaves == \A t \in Threads : ~Writing(t)
\* The progress file is at most one chapter behind the artifacts of the
\* pair and never ahead of them.
LagsByOne(version, book) ==
    LET N == completed_chapters(file.val, version, book)
    IN  /\ \A c \in 1..N : Artifact(version, book, c) \in disk
        /\ \A c \in 1..bible_books[book] :
               Artifact(version, book, c) \in written \cap net => c <= N + 1

\* C17 (interruption consistency): in selective mode, at every point
\* between two saves of a run in which no save failed, the count N the
\* progress file holds for a pair has the artifacts 1..N on disk, and the
\* only artifact of the pair this run may have written beyond them is N+1.
C17_InterruptionConsistent ==
    (mode = "selective" /\ ~saveFailed /\ BetweenSaves) =>
        \A v \in DOMAIN bible_versions, b \in DOMAIN bible_books :
            LagsByOne(v, b)
\* C17 witness: a selective run has written chapter 2 of HAG while the
\* progress file, saved by this run, still holds count 1.
C17_Witness ==
    /\ mode = "selective" /\ ~saveFailed /\ fresh
    /\ th[0].pc = "L168" /\ th[0].book = "HAG" /\ th[0].chapter = 2
    /\ completed_chapters(file.val, th[0].version, "HAG") = 1
    /\ Artifact(th[0].version, "HAG", 2) \in disk

\* The calls of scrape_bible_chapter a scrape_book call has completed.
Completed(r) ==
    IF r.pc \in {"fetch", "ret"} THEN Len(r.calls) ELSE Len(r.calls) - 1

\* C18 (at most one attempt per chapter per run): in a run whose requested
\* versions are distinct and whose requested books are distinct no chapter
\* of a pair is attempted twice; and every scrape_book call makes at most
\* chapterCount - starting count calls of scrape_bible_chapter, of which at
\* most one fails, the last one.
C18_OneAttemptPerChapter ==
    /\ (Distinct(versions) /\ Distinct(books)) =>
           \A v \in VersionArgs, b \in DOMAIN bible_books :
               Distinct(attempts[<<v, b>>])
    /\ \A t \in Threads :
           Running(t) =>
               /\ Len(th[t].calls) <= bible_books[th[t].book] - th[t].lo
               /\ Completed(th[t]) - th[t].newly
                      = (IF th[t].failed # 0 THEN 1 ELSE 0)
               /\ th[t].failed # 0 =>
                      /\ th[t].pc = "ret"
                      /\ th[t].calls[Len(th[t].calls)] = th[t].failed
\* C18 witness: in a run over distinct versions and books a scrape_book
\* call for HAG has returned after chapters 1 and 2, the second of which
\* failed, and chapter 1 of OBA was attempted once.
C18_Witness ==
    /\ Distinct(versions) /\ Distinct(books)
    /\ \E t \in Threads :
           /\ th[t].pc = "ret" /\ th[t].book = "HAG" /\ th[t].lo = 0
           /\ th[t].calls = <<1, 2>> /\ th[t].failed = 2 /\ th[t].newly = 1
           /\ attempts[<<th[t].version, "HAG">>] = <<1, 2>>
           /\ attempts[<<th[t].version, "OBA">>] = <<1>>

====
